---- MODULE Spec2Model ----
(***************************************************************************)
(* Document ingestion and processing pipeline of calendar-backend:        *)
(* the document registry (user_google_documents), the staging area on     *)
(* disk, the Langflow worker (processDocument and the batch driver        *)
(* processAllUnprocessedDocuments), the cron scheduler and the HTTP        *)
(* routes that sync, force a status and delete a document.                 *)
(*                                                                         *)
(* An async function is cut at its awaits on I/O (a database query, an     *)
(* HTTP call, a timer): one action is the awaited operation taking effect  *)
(* followed by the synchronous code up to the next such await.             *)
(***************************************************************************)
EXTENDS Integers, Sequences, FiniteSets, TLC

\* ------------------------------------------------------------------ bounds
MaxDocs == 2        \* ids the identity column hands out
MaxRequests == 2    \* requests served by the documents routes (sync, force status, delete)
MaxRunStarts == 2   \* batch-driver runs started (timer firings + manual triggers)

\* ------------------------------------------------------------------ domains
Users == {"u1", "u2"}
FileIds == {"f1"}
Names == {<<"a", "!", "!", "a">>}   \* display names, as sequences of characters
Runs == {1, 2}
DocIds == 1..MaxDocs

NoPath == <<"<null>">>
Null == "<null>"
NoResult == "<none>"

\* error messages
ErrNoPath == "No local file path found for document"
ErrNotFound == "Local file not found"
ErrUpload == "File upload failed"
ErrFlow == "Flow execution failed"
ErrNoFileId == "No file ID returned from upload"
ErrDocNotFound == "Document not found"
ErrUpdate == "Failed to update processing status"
ErrMark == "Failed to mark document as processed"
FlowResult == "flowResult"

\* mime types: the first two pass both filters, text/x-markdown passes only the
\* sync filter, image/png passes none
Mimes == {"application/pdf", "text/x-markdown", "image/png"}

VARIABLES
    docs,        \* the table user_google_documents: id -> row
    nextId,      \* the identity sequence of the id column
    clock,       \* now() of the next transaction (created_at)
    files,       \* paths that exist under temp/google-drive-files
    isRunning,   \* CronjobService.isRunning
    cronJob,     \* CronjobService.cronJob: "task" or Null
    tasks,       \* node-cron: the tasks scheduled and not stopped
    run,         \* per run slot, the position of one processUnprocessedDocuments call
    nRequests,   \* requests served by the documents routes
    nStart,      \* calls of processUnprocessedDocuments so far
    download     \* the position of a downloadMultipleFiles call

vars == <<docs, nextId, clock, files, isRunning, cronJob, tasks, run, nRequests, nStart,
          download>>

\* ------------------------------------------------------------------ staging area
SafeChars == {"a", ".", "-"}

\* .replace(/[^a-zA-Z0-9.-]/g, "_")
ReplaceUnsafe(s) == [i \in 1..Len(s) |-> IF s[i] \in SafeChars THEN s[i] ELSE "_"]

\* .replace(/_+/g, "_")
RECURSIVE CollapseUnderscores(_)
CollapseUnderscores(s) ==
    IF Len(s) < 2 THEN s
    ELSE IF s[1] = "_" /\ s[2] = "_"
         THEN CollapseUnderscores(Tail(s))
         ELSE <<s[1]>> \o CollapseUnderscores(Tail(s))

\* .replace(/^_|_$/g, "")
TrimUnderscore(s) ==
    LET a == IF Len(s) > 0 /\ s[1] = "_" THEN Tail(s) ELSE s
    IN  IF Len(a) > 0 /\ a[Len(a)] = "_" THEN SubSeq(a, 1, Len(a) - 1) ELSE a

createSafeFileName(fileName) ==
    TrimUnderscore(CollapseUnderscores(ReplaceUnsafe(fileName)))

LocalPath(userId, fileId, fileName) == <<userId, fileId, createSafeFileName(fileName)>>

fileExists(fs, localPath) == localPath \in fs

deleteFile(fs, localPath) == fs \ {localPath}

isSupportedDocumentType(mimeType) ==
    mimeType \in {"application/pdf",
                  "application/vnd.openxmlformats-officedocument.wordprocessingml.document",
                  "application/msword", "text/plain", "text/markdown"}

documentTypes ==
    {"application/pdf",
     "application/vnd.openxmlformats-officedocument.wordprocessingml.document",
     "text/plain", "text/markdown", "text/x-markdown", "application/msword",
     "application/vnd.ms-word"}

\* ------------------------------------------------------------------ registry
\* A registry call returns [ok, docs]: ok = FALSE is the call throwing.
Thrown(ds) == [ok |-> FALSE, docs |-> ds]
Returned(ds) == [ok |-> TRUE, docs |-> ds]

\* the flag computed as "anything but pending"
updateProcessingStatus_ProcessedUnlessPending(ds, documentId, status, error) ==
    IF documentId \notin DOMAIN ds
    THEN Thrown(ds)
    ELSE Returned([ds EXCEPT ![documentId].processed = (status # "pending"),
                             ![documentId].processing_status = status,
                             ![documentId].processing_error = error])

updateProcessingStatus(ds, documentId, status, error) ==
    IF documentId \notin DOMAIN ds
    THEN Thrown(ds)
    ELSE Returned([ds EXCEPT ![documentId].processed = (status = "completed"),
                             ![documentId].processing_status = status,
                             ![documentId].processing_error = error])

\* additionalData: [result, processing_status], each possibly Null (undefined)
markAsProcessed(ds, documentId, additionalData) ==
    IF documentId \notin DOMAIN ds
    THEN Thrown(ds)
    ELSE LET st == IF additionalData.processing_status = Null
                   THEN "completed" ELSE additionalData.processing_status
             d1 == [ds EXCEPT ![documentId].processed = TRUE,
                              ![documentId].processing_status = st]
         IN  Returned(IF additionalData.result = Null
                      THEN d1
                      ELSE [d1 EXCEPT ![documentId].result = additionalData.result])

\* a markAsFailed that writes nothing
markAsFailed_WritesNothing(ds, documentId, error) ==
    IF documentId \notin DOMAIN ds THEN Thrown(ds) ELSE Returned(ds)

markAsFailed(ds, documentId, error) ==
    updateProcessingStatus(ds, documentId, "failed", error)

deleteDocument(ds, documentId) ==
    [d \in DOMAIN ds \ {documentId} |-> ds[d]]

\* the row of (user_id, google_drive_file_id), or 0
\* no conflict is ever found
RowOf_NoConflict(ds, userId, fileId) == 0

RowOf(ds, userId, fileId) ==
    IF \E d \in DOMAIN ds : ds[d].user_id = userId /\ ds[d].google_drive_file_id = fileId
    THEN CHOOSE d \in DOMAIN ds : ds[d].user_id = userId /\ ds[d].google_drive_file_id = fileId
    ELSE 0

\* INSERT ... ON CONFLICT (user_id, google_drive_file_id) DO UPDATE of one document
\* an update that also queues the row again
UpsertRow_Requeues(ds, id, now, doc) ==
    LET d == RowOf(ds, doc.user_id, doc.google_drive_file_id) IN
    IF d # 0
    THEN [ds EXCEPT ![d].file_name = doc.file_name,
                    ![d].mime_type = doc.mime_type,
                    ![d].local_file_path = doc.local_file_path,
                    ![d].processed = FALSE,
                    ![d].processing_status = "pending",
                    ![d].result = NoResult]
    ELSE [x \in DOMAIN ds \cup {id} |->
            IF x = id
            THEN [user_id |-> doc.user_id,
                  google_drive_file_id |-> doc.google_drive_file_id,
                  file_name |-> doc.file_name,
                  mime_type |-> doc.mime_type,
                  local_file_path |-> doc.local_file_path,
                  processed |-> FALSE,
                  processing_status |-> "pending",
                  processing_error |-> Null,
                  result |-> NoResult,
                  created_at |-> now]
            ELSE ds[x]]

UpsertRow(ds, id, now, doc) ==
    LET d == RowOf(ds, doc.user_id, doc.google_drive_file_id) IN
    IF d # 0
    THEN [ds EXCEPT ![d].file_name = doc.file_name,
                    ![d].mime_type = doc.mime_type,
                    ![d].local_file_path = doc.local_file_path]
    ELSE [x \in DOMAIN ds \cup {id} |->
            IF x = id
            THEN [user_id |-> doc.user_id,
                  google_drive_file_id |-> doc.google_drive_file_id,
                  file_name |-> doc.file_name,
                  mime_type |-> doc.mime_type,
                  local_file_path |-> doc.local_file_path,
                  processed |-> FALSE,
                  processing_status |-> "pending",
                  processing_error |-> Null,
                  result |-> NoResult,
                  created_at |-> now]
            ELSE ds[x]]

\* the rows saveDocuments writes for its documents, in order, and the next free id
\* (ids stand for the rank of the identity values: the values an upsert of an
\* existing row skips are not represented)
RECURSIVE SaveRows(_, _, _, _)
SaveRows(ds, id, now, documents) ==
    IF documents = <<>>
    THEN [docs |-> ds, nextId |-> id]
    ELSE LET doc == Head(documents)
             isNew == RowOf(ds, doc.user_id, doc.google_drive_file_id) = 0
         IN  SaveRows(UpsertRow(ds, id, now, doc),
                      IF isNew THEN id + 1 ELSE id, now, Tail(documents))

\* saveDocuments: BEGIN, one INSERT ... ON CONFLICT per document, COMMIT, and
\* ROLLBACK in the catch. failAt is the statement that fails: 0 for none, k for the
\* INSERT of document k, Len(documents) + 1 for the COMMIT. [ok, docs, nextId]
\* statements that commit one by one
saveDocuments_NoTransaction(ds, id, now, documents, failAt) ==
    IF documents = <<>> THEN [ok |-> TRUE, docs |-> ds, nextId |-> id]
    ELSE LET written == SaveRows(ds, id, now,
                            IF failAt = 0 THEN documents
                            ELSE SubSeq(documents, 1, failAt - 1))
         IN  [ok |-> failAt = 0, docs |-> written.docs, nextId |-> written.nextId]

saveDocuments(ds, id, now, documents, failAt) ==
    IF documents = <<>> THEN [ok |-> TRUE, docs |-> ds, nextId |-> id]
    ELSE LET written == SaveRows(ds, id, now,
                            IF failAt = 0 THEN documents
                            ELSE SubSeq(documents, 1, failAt - 1))
         IN  IF failAt = 0
             THEN [ok |-> TRUE, docs |-> written.docs, nextId |-> written.nextId]
             ELSE [ok |-> FALSE, docs |-> ds, nextId |-> id]

\* ------------------------------------------------------------------ scheduler
IdleRun == [pc |-> "idle", page |-> <<>>, idx |-> 0, lfp |-> NoPath,
            had |-> FALSE, uploaded |-> FALSE, err |-> Null,
            processed |-> 0, failed |-> 0, threw |-> FALSE]

InFlight(r) == run[r].pc # "idle"

\* the slot a new call of processUnprocessedDocuments takes
FreeSlot(r) ==
    /\ ~InFlight(r)
    /\ \A q \in Runs : ~InFlight(q) => ~(q < r)

\* the fields of CronjobService and the tasks node-cron holds for it
Scheduler == [isRunning |-> isRunning, cronJob |-> cronJob, tasks |-> tasks]

\* CronjobService.start; scheduled = FALSE is cron.schedule throwing
\* a start without the isRunning test
start_Unguarded(s, scheduled) ==
    IF ~scheduled THEN s
    ELSE [isRunning |-> TRUE, cronJob |-> "task", tasks |-> s.tasks + 1]

start(s, scheduled) ==
    IF s.isRunning THEN s
    ELSE IF ~scheduled THEN s
    ELSE [isRunning |-> TRUE, cronJob |-> "task", tasks |-> s.tasks + 1]

\* CronjobService.stop
\* a stop that drops the handle without stopping the task
stop_LeavesTask(s) ==
    IF ~s.isRunning \/ s.cronJob = Null THEN s
    ELSE [isRunning |-> FALSE, cronJob |-> Null, tasks |-> s.tasks]

stop(s) ==
    IF ~s.isRunning \/ s.cronJob = Null THEN s
    ELSE [isRunning |-> FALSE, cronJob |-> Null, tasks |-> s.tasks - 1]

\* POST /cronjob/start, and the start at boot
Start ==
    /\ \E scheduled \in BOOLEAN :
         LET s == start(Scheduler, scheduled)
         IN  /\ isRunning' = s.isRunning
             /\ cronJob' = s.cronJob
             /\ tasks' = s.tasks
    /\ UNCHANGED <<download, docs, nextId, clock, files, run, nRequests, nStart>>

\* POST /cronjob/stop
Stop ==
    /\ LET s == stop(Scheduler)
       IN  /\ isRunning' = s.isRunning
           /\ cronJob' = s.cronJob
           /\ tasks' = s.tasks
    /\ UNCHANGED <<download, docs, nextId, clock, files, run, nRequests, nStart>>

\* processUnprocessedDocuments is entered: the batch driver issues its query
EnterRun(r) ==
    /\ FreeSlot(r)
    /\ nStart < MaxRunStarts
    /\ nStart' = nStart + 1
    /\ run' = [run EXCEPT ![r] = [IdleRun EXCEPT !.pc = "query"]]
    /\ UNCHANGED <<download, docs, nextId, clock, files, isRunning, cronJob, tasks, nRequests>>

\* the scheduled task fires its callback
TimerFire(r) ==
    /\ tasks > 0
    /\ EnterRun(r)

\* CronjobService.triggerProcessing (POST /cronjob/trigger)
\* a trigger that a stopped scheduler refuses
TriggerProcessing_OnlyWhenRunning(r) ==
    /\ isRunning
    /\ EnterRun(r)

TriggerProcessing(r) ==
    /\ ~InFlight(r)
    /\ EnterRun(r)

\* ------------------------------------------------------------------ batch driver
PageLimit == 100

Unprocessed(ds) == {d \in DOMAIN ds : ds[d].processed = FALSE}

\* the first limit rows of S in ascending created_at: every order that created_at
\* allows (rows of one transaction tie, and t is the order the query gives them)
\* ORDER BY created_at DESC
PagesFrom_NewestFirst(ds, S, limit) ==
    LET n == Cardinality(S)
        tied == {d \in S : \E e \in S \ {d} : ds[e].created_at = ds[d].created_at}
        tiebreaks == {t \in [tied -> 1..Cardinality(tied)] :
                        \A d, e \in tied : d # e => t[d] # t[e]}
        rank(t, d) == 1 + Cardinality({e \in S :
                             \/ ds[e].created_at > ds[d].created_at
                             \/ /\ ds[e].created_at = ds[d].created_at
                                /\ e # d
                                /\ t[e] < t[d]})
    IN  {[i \in 1..(IF n < limit THEN n ELSE limit) |-> CHOOSE d \in S : rank(t, d) = i] :
            t \in tiebreaks}

PagesFrom(ds, S, limit) ==
    LET n == Cardinality(S)
        tied == {d \in S : \E e \in S \ {d} : ds[e].created_at = ds[d].created_at}
        tiebreaks == {t \in [tied -> 1..Cardinality(tied)] :
                        \A d, e \in tied : d # e => t[d] # t[e]}
        rank(t, d) == 1 + Cardinality({e \in S :
                             \/ ds[e].created_at < ds[d].created_at
                             \/ /\ ds[e].created_at = ds[d].created_at
                                /\ e # d
                                /\ t[e] < t[d]})
    IN  {[i \in 1..(IF n < limit THEN n ELSE limit) |-> CHOOSE d \in S : rank(t, d) = i] :
            t \in tiebreaks}

\* SELECT * WHERE processed = false ORDER BY created_at ASC LIMIT 100
QueryPages(ds) == PagesFrom(ds, Unprocessed(ds), PageLimit)

\* the loop moves to the next document of the page, or returns the counts
\* a loop that a failed document ends
NextDocument_StopAtFailure(rec) ==
    IF rec.idx < Len(rec.page) /\ rec.failed = 0
    THEN [rec EXCEPT !.pc = "get", !.idx = rec.idx + 1, !.lfp = NoPath, !.had = FALSE,
                     !.uploaded = FALSE, !.err = Null]
    ELSE [rec EXCEPT !.pc = "done", !.lfp = NoPath, !.had = FALSE,
                     !.uploaded = FALSE, !.err = Null]

NextDocument(rec) ==
    IF rec.idx < Len(rec.page)
    THEN [rec EXCEPT !.pc = "get", !.idx = rec.idx + 1, !.lfp = NoPath, !.had = FALSE,
                     !.uploaded = FALSE, !.err = Null]
    ELSE [rec EXCEPT !.pc = "done", !.lfp = NoPath, !.had = FALSE,
                     !.uploaded = FALSE, !.err = Null]

\* the query of processAllUnprocessedDocuments returns its rows
RunQuery(r) ==
    /\ run[r].pc = "query"
    /\ \E page \in QueryPages(docs) :
         run' = [run EXCEPT ![r] =
                   IF Len(page) = 0
                   THEN [run[r] EXCEPT !.pc = "done"]
                   ELSE [run[r] EXCEPT !.pc = "get", !.page = page, !.idx = 1]]
    /\ UNCHANGED <<download, docs, nextId, clock, files, isRunning, cronJob, tasks, nRequests, nStart>>

\* the query fails: processAllUnprocessedDocuments rethrows, and
\* processUnprocessedDocuments catches and logs
RunQueryFails(r) ==
    /\ run[r].pc = "query"
    /\ run' = [run EXCEPT ![r] = [run[r] EXCEPT !.pc = "done", !.threw = TRUE]]
    /\ UNCHANGED <<download, docs, nextId, clock, files, isRunning, cronJob, tasks, nRequests, nStart>>

\* processUnprocessedDocuments around the batch driver: whether the call raises
\* when the batch driver has ended as in rec
\* no try/catch around the batch driver
processUnprocessedDocuments_Rethrows(rec) == rec.threw

processUnprocessedDocuments(rec) == FALSE

\* processUnprocessedDocuments returns, or raises into its caller; the slot is
\* free again and keeps whether the call raised
RunReturn(r) ==
    /\ run[r].pc = "done"
    /\ run' = [run EXCEPT ![r] =
                 [IdleRun EXCEPT !.threw = processUnprocessedDocuments(run[r])]]
    /\ UNCHANGED <<download, docs, nextId, clock, files, isRunning, cronJob, tasks, nRequests, nStart>>

\* ------------------------------------------------------------------ worker
CurrentDoc(r) == run[r].page[run[r].idx]

\* processDocument, from the check of local_file_path to readFileSync: the error
\* thrown, or Null when the bytes were read
\* the existence check and the read left out
StagedFileError_PathOnly(localFilePath, fs) ==
    IF localFilePath = NoPath THEN ErrNoPath ELSE Null

StagedFileError(localFilePath, fs) ==
    IF localFilePath = NoPath THEN ErrNoPath
    ELSE IF ~fileExists(fs, localFilePath) THEN ErrNotFound
    ELSE Null

\* getDocumentById returns
DocGet(r) ==
    /\ run[r].pc = "get"
    /\ LET d == CurrentDoc(r) IN
       run' = [run EXCEPT ![r] =
                 IF d \notin DOMAIN docs
                 THEN [run[r] EXCEPT !.pc = "fail", !.err = ErrDocNotFound]
                 ELSE [run[r] EXCEPT !.pc = "setproc",
                                     !.lfp = docs[d].local_file_path,
                                     !.had = fileExists(files, docs[d].local_file_path)]]
    /\ UNCHANGED <<download, docs, nextId, clock, files, isRunning, cronJob, tasks, nRequests, nStart>>

\* updateProcessingStatus(id, "processing") returns; the staged file is checked
\* and read, and the upload is sent
DocSetProcessing(r) ==
    /\ run[r].pc = "setproc"
    /\ LET res == updateProcessingStatus(docs, CurrentDoc(r), "processing", Null)
           e == StagedFileError(run[r].lfp, files)
       IN  /\ docs' = res.docs
           /\ run' = [run EXCEPT ![r] =
                        IF ~res.ok THEN [run[r] EXCEPT !.pc = "fail", !.err = ErrUpdate]
                        ELSE IF e # Null THEN [run[r] EXCEPT !.pc = "fail", !.err = e]
                        ELSE [run[r] EXCEPT !.pc = "upload", !.uploaded = TRUE]]
    /\ UNCHANGED <<download, nextId, clock, files, isRunning, cronJob, tasks, nRequests, nStart>>

\* uploadFileToLangflow returns; on success the flow is run
DocUpload(r) ==
    /\ run[r].pc = "upload"
    /\ \E outcome \in {"ok", "failed", "nofileid"} :
         run' = [run EXCEPT ![r] =
                   IF outcome = "ok" THEN [run[r] EXCEPT !.pc = "flow"]
                   ELSE IF outcome = "failed"
                        THEN [run[r] EXCEPT !.pc = "fail", !.err = ErrUpload]
                        ELSE [run[r] EXCEPT !.pc = "fail", !.err = ErrNoFileId]]
    /\ UNCHANGED <<download, docs, nextId, clock, files, isRunning, cronJob, tasks, nRequests, nStart>>

\* runLangflowFlow returns
DocFlow(r) ==
    /\ run[r].pc = "flow"
    /\ \E success \in BOOLEAN :
         run' = [run EXCEPT ![r] =
                   IF success THEN [run[r] EXCEPT !.pc = "mark"]
                   ELSE [run[r] EXCEPT !.pc = "fail", !.err = ErrFlow]]
    /\ UNCHANGED <<download, docs, nextId, clock, files, isRunning, cronJob, tasks, nRequests, nStart>>

\* markAsProcessed returns; the staged file is deleted and processDocument
\* returns success
DocMark(r) ==
    /\ run[r].pc = "mark"
    /\ LET res == markAsProcessed(docs, CurrentDoc(r),
                      [result |-> FlowResult, processing_status |-> "completed"])
       IN  /\ docs' = res.docs
           /\ files' = IF res.ok /\ run[r].lfp # NoPath
                       THEN deleteFile(files, run[r].lfp) ELSE files
           /\ run' = [run EXCEPT ![r] =
                        IF res.ok
                        THEN [run[r] EXCEPT !.pc = "delay", !.processed = @ + 1]
                        ELSE [run[r] EXCEPT !.pc = "fail", !.err = ErrMark]]
    /\ UNCHANGED <<download, nextId, clock, isRunning, cronJob, tasks, nRequests, nStart>>

\* the catch of processDocument: markAsFailed returns and processDocument returns
\* failure, or markAsFailed throws and the loop of the batch driver catches it
DocFail(r) ==
    /\ run[r].pc = "fail"
    /\ LET res == markAsFailed(docs, CurrentDoc(r), run[r].err)
       IN  /\ docs' = res.docs
           /\ run' = [run EXCEPT ![r] =
                        IF res.ok
                        THEN [run[r] EXCEPT !.pc = "delay", !.failed = @ + 1]
                        ELSE NextDocument([run[r] EXCEPT !.failed = @ + 1])]
    /\ UNCHANGED <<download, nextId, clock, files, isRunning, cronJob, tasks, nRequests, nStart>>

\* the delay between two documents ends
DocDelay(r) ==
    /\ run[r].pc = "delay"
    /\ run' = [run EXCEPT ![r] = NextDocument(run[r])]
    /\ UNCHANGED <<download, docs, nextId, clock, files, isRunning, cronJob, tasks, nRequests, nStart>>

\* ------------------------------------------------------------------ sync
Absent == [mimeType |-> Null]

\* what the remote account lists, per file id: Absent, or a file with its mime
\* type, its display name and whether its download will succeed
Listings ==
    [FileIds -> {Absent} \cup [mimeType : Mimes, name : Names, downloads : BOOLEAN]]

\* the listed files in the order the remote account returns them
RECURSIVE SeqOfIds(_)
SeqOfIds(S) ==
    IF S = {} THEN <<>>
    ELSE LET x == CHOOSE y \in S : TRUE IN <<x>> \o SeqOfIds(S \ {x})

\* allFiles.files.filter(documentTypes.includes)
SyncDocuments(listing) ==
    {f \in DOMAIN listing : listing[f] # Absent /\ listing[f].mimeType \in documentTypes}

\* downloadAllUserFiles: the files it stages
Downloaded(listing) ==
    {f \in SyncDocuments(listing) :
        isSupportedDocumentType(listing[f].mimeType) /\ listing[f].downloads}

\* documentsToSave of syncUserDocuments
DocumentToSave(userId, f, listing) ==
    [user_id |-> userId,
     google_drive_file_id |-> f,
     file_name |-> listing[f].name,
     mime_type |-> listing[f].mimeType,
     local_file_path |-> IF f \in Downloaded(listing)
                         THEN LocalPath(userId, f, listing[f].name) ELSE NoPath]

RECURSIVE DocumentsToSave(_, _, _)
DocumentsToSave(userId, fs, listing) ==
    IF fs = <<>> THEN <<>>
    ELSE <<DocumentToSave(userId, Head(fs), listing)>>
         \o DocumentsToSave(userId, Tail(fs), listing)

\* POST /google-drive/sync-documents: the files are listed, filtered, downloaded
\* and written to the staging area, and saveDocuments commits their rows
SyncRoute(userId, listing) ==
    /\ nRequests < MaxRequests
    /\ nRequests' = nRequests + 1
    /\ LET documents == DocumentsToSave(userId, SeqOfIds(SyncDocuments(listing)), listing)
           saved == saveDocuments(docs, nextId, clock, documents, 0)
       IN  /\ saved.nextId <= MaxDocs + 1
           /\ docs' = saved.docs
           /\ nextId' = saved.nextId
           /\ clock' = IF documents = <<>> THEN clock ELSE clock + 1
           /\ files' = files \cup {LocalPath(userId, f, listing[f].name) :
                                      f \in Downloaded(listing)}
    /\ UNCHANGED <<download, isRunning, cronJob, tasks, run, nStart>>

\* the same request when a row of the batch fails: saveDocuments rolls back and
\* the route answers 500; the downloaded files stay
SyncRouteSaveFails(userId, listing) ==
    /\ nRequests < MaxRequests
    /\ nRequests' = nRequests + 1
    /\ SyncDocuments(listing) # {}
    /\ LET documents == DocumentsToSave(userId, SeqOfIds(SyncDocuments(listing)), listing)
       IN  \E failAt \in 1..(Len(documents) + 1) :
              LET saved == saveDocuments(docs, nextId, clock, documents, failAt)
              IN  /\ docs' = saved.docs
                  /\ nextId' = saved.nextId
    /\ files' = files \cup {LocalPath(userId, f, listing[f].name) :
                               f \in Downloaded(listing)}
    /\ UNCHANGED <<download, clock, isRunning, cronJob, tasks, run, nStart>>

\* ------------------------------------------------------------------ routes
\* !error of the route: undefined or the empty string
\* a test for undefined alone
MissingValue_UndefinedOnly(v) == v = Null

MissingValue(v) == v \in {Null, ""}

\* POST /google-drive/documents/:documentId/process: [code, docs]
ForceStatusRoute(ds, documentId, status, error) ==
    IF MissingValue(status) THEN [code |-> 400, docs |-> ds]
    ELSE IF status = "failed" /\ MissingValue(error) THEN [code |-> 400, docs |-> ds]
    ELSE LET res == IF status = "completed"
                    THEN markAsProcessed(ds, documentId,
                                         [result |-> Null, processing_status |-> Null])
                    ELSE IF status = "failed"
                         THEN markAsFailed(ds, documentId, error)
                         ELSE updateProcessingStatus(ds, documentId, status, error)
         IN  [code |-> IF res.ok THEN 200 ELSE 500, docs |-> res.docs]

ForceStatuses == {Null, "completed", "failed", "pending", "processing"}
ForceErrors == {Null, "", "manual"}

ForceStatus(userId, documentId, status, error) ==
    /\ nRequests < MaxRequests
    /\ nRequests' = nRequests + 1
    /\ LET res == ForceStatusRoute(docs, documentId, status, error)
       IN  docs' = res.docs
    /\ UNCHANGED <<download, nextId, clock, files, isRunning, cronJob, tasks, run, nStart>>

\* DELETE /google-drive/documents/:documentId
DeleteRoute(userId, documentId) ==
    /\ nRequests < MaxRequests
    /\ nRequests' = nRequests + 1
    /\ docs' = deleteDocument(docs, documentId)
    /\ UNCHANGED <<download, nextId, clock, files, isRunning, cronJob, tasks, run, nStart>>

\* ------------------------------------------------------------------ specification
\* no downloadMultipleFiles call
IdleDownload ==
    [pc |-> "idle", supportedFiles |-> <<>>, maxConcurrent |-> 0, chunks |-> <<>>,
     chunk |-> 0, started |-> {}, inFlight |-> {}, outcome |-> <<>>, results |-> <<>>]

Init ==
    /\ docs = <<>>
    /\ nextId = 1
    /\ clock = 1
    /\ files = {}
    /\ isRunning = FALSE
    /\ cronJob = Null
    /\ tasks = 0
    /\ run = [r \in Runs |-> IdleRun]
    /\ nRequests = 0
    /\ nStart = 0
    /\ download = IdleDownload

Next ==
    \/ Start
    \/ Stop
    \/ \E r \in Runs : TimerFire(r)
    \/ \E r \in Runs : TriggerProcessing(r)
    \/ \E r \in Runs : RunQuery(r)
    \/ \E r \in Runs : RunQueryFails(r)
    \/ \E r \in Runs : RunReturn(r)
    \/ \E r \in Runs : DocGet(r)
    \/ \E r \in Runs : DocSetProcessing(r)
    \/ \E r \in Runs : DocUpload(r)
    \/ \E r \in Runs : DocFlow(r)
    \/ \E r \in Runs : DocMark(r)
    \/ \E r \in Runs : DocFail(r)
    \/ \E r \in Runs : DocDelay(r)
    \/ \E u \in Users, listing \in Listings : SyncRoute(u, listing)
    \/ \E u \in Users, listing \in Listings : SyncRouteSaveFails(u, listing)
    \/ \E u \in Users, d \in DocIds, st \in ForceStatuses, e \in ForceErrors :
         ForceStatus(u, d, st, e)
    \/ \E u \in Users, d \in DocIds : DeleteRoute(u, d)

Spec == Init /\ [][Next]_vars

\* ------------------------------------------------------------------ properties
Status(d) == docs[d].processing_status

\* a step of processDocument in run r that writes the registry
WorkerWrite(r) == DocSetProcessing(r) \/ DocMark(r) \/ DocFail(r)

\* C1: a timer firing never starts processUnprocessedDocuments while an earlier
\* run, started by the timer or by triggerProcessing, has not returned.
C1_NoScheduledRunWhileInFlight ==
    [][\A r \in Runs : TimerFire(r) => \A q \in Runs : ~InFlight(q)]_vars

\* C2: once a document is failed or completed, no batch-driver run selects it
\* again or changes its status.
C2_TerminalUntouchedByRuns ==
    [][\A r \in Runs : \A d \in DOMAIN docs :
          Status(d) \in {"failed", "completed"} =>
             /\ RunQuery(r) => \A k \in 1..Len(run'[r].page) : run'[r].page[k] # d
             /\ (WorkerWrite(r) /\ d \in DOMAIN docs') =>
                    docs'[d].processing_status = Status(d)]_vars

\* C3: in every reachable state each row has processed = true exactly when its
\* processing_status is completed.
C3_ProcessedIffCompleted ==
    \A d \in DOMAIN docs : (docs[d].processed = TRUE) <=> (Status(d) = "completed")

C3_Witness ==
    \E d, e \in DOMAIN docs :
        /\ Status(d) = "completed" /\ docs[d].processed = TRUE
        /\ Status(e) = "failed" /\ docs[e].processed = FALSE

\* C4: a row's processing_status becomes completed only from processing; no step
\* takes a pending or failed row directly to completed.
C4_CompletedOnlyFromProcessing ==
    [][\A d \in DOMAIN docs \cap DOMAIN docs' :
          (docs'[d].processing_status = "completed" /\ Status(d) # "completed")
             => Status(d) = "processing"]_vars

C6_ProcessingHasLocalPath ==
    [][\A r \in Runs : \A d \in DOMAIN docs' :
          (WorkerWrite(r) /\ docs'[d].processing_status = "processing")
             => docs'[d].local_file_path # NoPath]_vars

C8_FailedInvocationKeepsStagedFile ==
    [][\A r \in Runs :
          /\ (DocMark(r) /\ files' # files) =>
                docs'[CurrentDoc(r)].processing_status = "completed"
          /\ (DocFail(r) /\ CurrentDoc(r) \in DOMAIN docs /\ run[r].had) =>
                fileExists(files', run[r].lfp)]_vars

\* C9: in every reachable state a non-null local_file_path on a row implies that
\* the staged file at that path exists.
C9_LocalPathImpliesStagedFile ==
    \A d \in DOMAIN docs :
        docs[d].local_file_path # NoPath => fileExists(files, docs[d].local_file_path)

\* C10: whenever a row is moved to completed, by markAsProcessed of the worker or
\* by a force-status request, its processing_error is null afterwards.
C10_CompletedClearsError ==
    [][\A d \in DOMAIN docs \cap DOMAIN docs' :
          (docs'[d].processing_status = "completed" /\ Status(d) # "completed")
             => docs'[d].processing_error = Null]_vars

\* ------------------------------------------------------------------ LangExtract service
\* The second processing service. Its positions are those of the Langflow worker
\* prefixed by x_; x_test is the await of testConnectivity and x_done the return of
\* its processAllUnprocessedDocuments.
ErrConnectivity == "LangExtract API connectivity test failed"

ExtractPageLimit == 1

\* SELECT * WHERE processed = false AND processing_status = 'pending'
\* ORDER BY created_at ASC LIMIT 1
ExtractQueryPages(ds) ==
    LET S == {d \in DOMAIN ds : ds[d].processed = FALSE /\ ds[d].processing_status = "pending"}
        n == Cardinality(S)
        orders == {p \in [1..n -> S] :
                     /\ \A i, j \in 1..n : i # j => p[i] # p[j]
                     /\ \A i, j \in 1..n : i < j => ds[p[i]].created_at <= ds[p[j]].created_at}
    IN  {SubSeq(p, 1, IF n < ExtractPageLimit THEN n ELSE ExtractPageLimit) : p \in orders}

ExtractNextDocument(rec) ==
    IF rec.idx < Len(rec.page)
    THEN [rec EXCEPT !.pc = "x_test", !.idx = rec.idx + 1, !.lfp = NoPath, !.had = FALSE,
                     !.uploaded = FALSE, !.err = Null]
    ELSE [rec EXCEPT !.pc = "x_done", !.lfp = NoPath, !.had = FALSE,
                     !.uploaded = FALSE, !.err = Null]

\* langExtractService.processAllUnprocessedDocuments is called and issues its query
ExtractEnter(r) ==
    /\ FreeSlot(r)
    /\ nStart < MaxRunStarts
    /\ nStart' = nStart + 1
    /\ run' = [run EXCEPT ![r] = [IdleRun EXCEPT !.pc = "x_query"]]
    /\ UNCHANGED <<download, docs, nextId, clock, files, isRunning, cronJob, tasks, nRequests>>

ExtractQuery(r) ==
    /\ run[r].pc = "x_query"
    /\ \E page \in ExtractQueryPages(docs) :
         run' = [run EXCEPT ![r] =
                   IF Len(page) = 0
                   THEN [run[r] EXCEPT !.pc = "x_done"]
                   ELSE [run[r] EXCEPT !.pc = "x_test", !.page = page, !.idx = 1]]
    /\ UNCHANGED <<download, docs, nextId, clock, files, isRunning, cronJob, tasks, nRequests, nStart>>

ExtractQueryFails(r) ==
    /\ run[r].pc = "x_query"
    /\ run' = [run EXCEPT ![r] = [run[r] EXCEPT !.pc = "x_done", !.threw = TRUE]]
    /\ UNCHANGED <<download, docs, nextId, clock, files, isRunning, cronJob, tasks, nRequests, nStart>>

\* testConnectivity returns
ExtractConnectivity(r) ==
    /\ run[r].pc = "x_test"
    /\ \E success \in BOOLEAN :
         run' = [run EXCEPT ![r] =
                   IF success THEN [run[r] EXCEPT !.pc = "x_get"]
                   ELSE [run[r] EXCEPT !.pc = "x_fail", !.err = ErrConnectivity]]
    /\ UNCHANGED <<download, docs, nextId, clock, files, isRunning, cronJob, tasks, nRequests, nStart>>

ExtractGet(r) ==
    /\ run[r].pc = "x_get"
    /\ LET d == CurrentDoc(r) IN
       run' = [run EXCEPT ![r] =
                 IF d \notin DOMAIN docs
                 THEN [run[r] EXCEPT !.pc = "x_fail", !.err = ErrDocNotFound]
                 ELSE [run[r] EXCEPT !.pc = "x_setproc",
                                     !.lfp = docs[d].local_file_path,
                                     !.had = fileExists(files, docs[d].local_file_path)]]
    /\ UNCHANGED <<download, docs, nextId, clock, files, isRunning, cronJob, tasks, nRequests, nStart>>

ExtractSetProcessing(r) ==
    /\ run[r].pc = "x_setproc"
    /\ LET res == updateProcessingStatus(docs, CurrentDoc(r), "processing", Null)
           e == StagedFileError(run[r].lfp, files)
       IN  /\ docs' = res.docs
           /\ run' = [run EXCEPT ![r] =
                        IF ~res.ok THEN [run[r] EXCEPT !.pc = "x_fail", !.err = ErrUpdate]
                        ELSE IF e # Null THEN [run[r] EXCEPT !.pc = "x_fail", !.err = e]
                        ELSE [run[r] EXCEPT !.pc = "x_upload", !.uploaded = TRUE]]
    /\ UNCHANGED <<download, nextId, clock, files, isRunning, cronJob, tasks, nRequests, nStart>>

\* uploadFileToLangExtract returns
ExtractUpload(r) ==
    /\ run[r].pc = "x_upload"
    /\ \E success \in BOOLEAN :
         run' = [run EXCEPT ![r] =
                   IF success THEN [run[r] EXCEPT !.pc = "x_mark"]
                   ELSE [run[r] EXCEPT !.pc = "x_fail", !.err = ErrUpload]]
    /\ UNCHANGED <<download, docs, nextId, clock, files, isRunning, cronJob, tasks, nRequests, nStart>>

ExtractMark(r) ==
    /\ run[r].pc = "x_mark"
    /\ LET res == markAsProcessed(docs, CurrentDoc(r),
                      [result |-> FlowResult, processing_status |-> "completed"])
       IN  /\ docs' = res.docs
           /\ files' = IF res.ok /\ run[r].lfp # NoPath
                       THEN deleteFile(files, run[r].lfp) ELSE files
           /\ run' = [run EXCEPT ![r] =
                        IF res.ok
                        THEN [run[r] EXCEPT !.pc = "x_delay", !.processed = @ + 1]
                        ELSE [run[r] EXCEPT !.pc = "x_fail", !.err = ErrMark]]
    /\ UNCHANGED <<download, nextId, clock, isRunning, cronJob, tasks, nRequests, nStart>>

ExtractFail(r) ==
    /\ run[r].pc = "x_fail"
    /\ LET res == markAsFailed(docs, CurrentDoc(r), run[r].err)
       IN  /\ docs' = res.docs
           /\ run' = [run EXCEPT ![r] =
                        IF res.ok
                        THEN [run[r] EXCEPT !.pc = "x_delay", !.failed = @ + 1]
                        ELSE ExtractNextDocument([run[r] EXCEPT !.failed = @ + 1])]
    /\ UNCHANGED <<download, nextId, clock, files, isRunning, cronJob, tasks, nRequests, nStart>>

ExtractDelay(r) ==
    /\ run[r].pc = "x_delay"
    /\ run' = [run EXCEPT ![r] = ExtractNextDocument(run[r])]
    /\ UNCHANGED <<download, docs, nextId, clock, files, isRunning, cronJob, tasks, nRequests, nStart>>

\* ------------------------------------------------------------------ one batch-driver run
\* A registry of N pending documents whose files are staged, as syncs leave it,
\* and one call of a batch driver with nothing else running.
MaxBatch == 3       \* documents in the registry when the batch driver is called

BatchFileIds == {"f1", "f2"}
BatchKeys == Users \X BatchFileIds

\* the document a sync saves for a staged pdf
StagedDocument(key) ==
    [user_id |-> key[1],
     google_drive_file_id |-> key[2],
     file_name |-> CHOOSE n \in Names : TRUE,
     mime_type |-> "application/pdf",
     local_file_path |-> LocalPath(key[1], key[2], CHOOSE n \in Names : TRUE)]

\* non-decreasing created_at of rows 1..n
CreatedAts(n) == {t \in [1..n -> 1..n] : \A i, j \in 1..n : i < j => t[i] <= t[j]}

PendingRegistry(keys, t) ==
    [i \in 1..Len(keys) |-> UpsertRow(<<>>, i, t[i], StagedDocument(keys[i]))[i]]

InitBatch ==
    /\ \E S \in SUBSET BatchKeys :
         /\ Cardinality(S) \in 1..MaxBatch
         /\ \E t \in CreatedAts(Cardinality(S)) :
              /\ docs = PendingRegistry(SeqOfIds(S), t)
              /\ clock = t[Cardinality(S)] + 1
         /\ nextId = Cardinality(S) + 1
         /\ files = {LocalPath(k[1], k[2], CHOOSE n \in Names : TRUE) : k \in S}
    /\ isRunning = FALSE
    /\ cronJob = Null
    /\ tasks = 0
    /\ run = [r \in Runs |-> IdleRun]
    /\ nRequests = 0
    /\ nStart = 0
    /\ download = IdleDownload

\* the one call: cronjobService.triggerProcessing, or the LangExtract batch driver
BatchTrigger(r) ==
    /\ nStart = 0
    /\ TriggerProcessing(r)

BatchExtract(r) ==
    /\ nStart = 0
    /\ ExtractEnter(r)

NextBatch ==
    \/ \E r \in Runs : BatchTrigger(r)
    \/ \E r \in Runs : BatchExtract(r)
    \/ \E r \in Runs : RunQuery(r)
    \/ \E r \in Runs : RunQueryFails(r)
    \/ \E r \in Runs : DocGet(r)
    \/ \E r \in Runs : DocSetProcessing(r)
    \/ \E r \in Runs : DocUpload(r)
    \/ \E r \in Runs : DocFlow(r)
    \/ \E r \in Runs : DocMark(r)
    \/ \E r \in Runs : DocFail(r)
    \/ \E r \in Runs : DocDelay(r)
    \/ \E r \in Runs : ExtractQuery(r)
    \/ \E r \in Runs : ExtractQueryFails(r)
    \/ \E r \in Runs : ExtractConnectivity(r)
    \/ \E r \in Runs : ExtractGet(r)
    \/ \E r \in Runs : ExtractSetProcessing(r)
    \/ \E r \in Runs : ExtractUpload(r)
    \/ \E r \in Runs : ExtractMark(r)
    \/ \E r \in Runs : ExtractFail(r)
    \/ \E r \in Runs : ExtractDelay(r)

SpecBatch == InitBatch /\ [][NextBatch]_vars

\* what a finished run reports and leaves, for a registry that held n pending
\* documents with staged files when it started
BatchCounts(rec, n) ==
    LET total == Len(rec.page)
    IN  /\ total = n
        /\ rec.processed + rec.failed = total
        /\ Cardinality({d \in DOMAIN docs : Status(d) = "failed"}) = rec.failed
        /\ Cardinality({d \in DOMAIN docs : Status(d) = "completed"}) = rec.processed
        /\ rec.failed = 1 => rec.processed = n - 1

\* C11: a batch-driver run over N pending documents with staged files, N within
\* the page limit of the driver, returns total = N and processed + failed = total,
\* the documents it counts as failed are failed and the others are completed;
\* with one failing document that is processed = N - 1, failed = 1.
C11_BatchCounts ==
    \A r \in Runs :
        LET N == Cardinality(DOMAIN docs) IN
        /\ (run[r].pc = "done" /\ ~run[r].threw /\ N <= PageLimit)
              => BatchCounts(run[r], N)
        /\ (run[r].pc = "x_done" /\ ~run[r].threw /\ N <= ExtractPageLimit)
              => BatchCounts(run[r], N)

\* a Langflow run over three documents that failed one and completed two
C11_Witness ==
    \E r \in Runs :
        /\ run[r].pc = "done"
        /\ Len(run[r].page) = 3
        /\ run[r].failed = 1
        /\ run[r].processed = 2

\* ------------------------------------------------------------------ syncs over several files
\* Syncs of accounts that list two files, force-status requests and one
\* batch-driver run at a time.
SaveMimes == {"application/pdf"}

SaveListings ==
    [BatchFileIds -> {Absent} \cup [mimeType : SaveMimes, name : Names, downloads : BOOLEAN]]

SaveSync(userId, listing) ==
    /\ listing \in SaveListings
    /\ SyncRoute(userId, listing)

SaveSyncFails(userId, listing) ==
    /\ listing \in SaveListings
    /\ SyncRouteSaveFails(userId, listing)

SaveTrigger(r) ==
    /\ \A q \in Runs : ~InFlight(q)
    /\ TriggerProcessing(r)

NextSave ==
    \/ \E u \in Users, listing \in SaveListings : SaveSync(u, listing)
    \/ \E u \in Users, listing \in SaveListings : SaveSyncFails(u, listing)
    \/ \E u \in Users, d \in DocIds, st \in ForceStatuses, e \in ForceErrors :
         ForceStatus(u, d, st, e)
    \/ \E r \in Runs : SaveTrigger(r)
    \/ \E r \in Runs : RunQuery(r)
    \/ \E r \in Runs : RunReturn(r)
    \/ \E r \in Runs : DocGet(r)
    \/ \E r \in Runs : DocSetProcessing(r)
    \/ \E r \in Runs : DocUpload(r)
    \/ \E r \in Runs : DocFlow(r)
    \/ \E r \in Runs : DocMark(r)
    \/ \E r \in Runs : DocFail(r)
    \/ \E r \in Runs : DocDelay(r)

SpecSave == Init /\ [][NextSave]_vars

\* the key of a row
KeyOf(ds, d) == <<ds[d].user_id, ds[d].google_drive_file_id>>

\* C12: the registry holds at most one row per (user_id, google_drive_file_id), and
\* saving the documents of a sync a second time creates no row and leaves every
\* row's id as it was.
C12_OneRowPerFileAndStableIds ==
    /\ \A d, e \in DOMAIN docs : KeyOf(docs, d) = KeyOf(docs, e) => d = e
    /\ \A u \in Users, listing \in SaveListings :
          LET documents == DocumentsToSave(u, SeqOfIds(SyncDocuments(listing)), listing)
              once == saveDocuments(docs, nextId, clock, documents, 0)
              twice == saveDocuments(once.docs, once.nextId, clock + 1, documents, 0)
          IN  /\ DOMAIN twice.docs = DOMAIN once.docs
              /\ twice.nextId = once.nextId
              /\ \A d \in DOMAIN once.docs : KeyOf(twice.docs, d) = KeyOf(once.docs, d)
              /\ \A d, e \in DOMAIN twice.docs :
                    KeyOf(twice.docs, d) = KeyOf(twice.docs, e) => d = e

\* two rows of one user, the older one completed by the worker and then synced
\* again by a sync whose download failed
C12_Witness ==
    \E d, e \in DOMAIN docs :
        /\ d # e
        /\ docs[d].user_id = docs[e].user_id
        /\ docs[d].created_at < docs[e].created_at
        /\ docs[d].result = FlowResult
        /\ docs[d].local_file_path = NoPath

\* the row of document doc holds what the document carries
Committed(ds, doc) ==
    LET d == RowOf(ds, doc.user_id, doc.google_drive_file_id) IN
    /\ d # 0
    /\ ds[d].file_name = doc.file_name
    /\ ds[d].mime_type = doc.mime_type
    /\ ds[d].local_file_path = doc.local_file_path

\* C13: saveDocuments is all-or-nothing: when the write of any row (or the commit)
\* fails the call reports an error and the registry is as it was before the call;
\* otherwise every row of the batch is committed.
C13_SaveAllOrNothing ==
    \A u \in Users, listing \in SaveListings :
        LET documents == DocumentsToSave(u, SeqOfIds(SyncDocuments(listing)), listing)
            saved == saveDocuments(docs, nextId, clock, documents, 0)
        IN  /\ \A failAt \in 1..(Len(documents) + 1) :
                  documents # <<>> =>
                     saveDocuments(docs, nextId, clock, documents, failAt)
                        = [ok |-> FALSE, docs |-> docs, nextId |-> nextId]
            /\ saved.ok
            /\ \A k \in 1..Len(documents) : Committed(saved.docs, documents[k])

\* a sync of two files of which both were downloaded and none was saved, after an
\* earlier sync had registered a row
C13_Witness ==
    /\ nRequests = 2
    /\ Cardinality(DOMAIN docs) = 1
    /\ \E u \in Users : \A f \in BatchFileIds :
          fileExists(files, LocalPath(u, f, CHOOSE n \in Names : TRUE))

\* getUnprocessedDocuments: SELECT * WHERE user_id = $1 AND processed = false
\* ORDER BY created_at ASC LIMIT $2; every list the query may return
getUnprocessedDocuments(ds, userId, limit) ==
    LET S == {d \in DOMAIN ds : ds[d].user_id = userId /\ ds[d].processed = FALSE}
        n == Cardinality(S)
        orders == {p \in [1..n -> S] :
                     /\ \A i, j \in 1..n : i # j => p[i] # p[j]
                     /\ \A i, j \in 1..n : i < j => ds[p[i]].created_at <= ds[p[j]].created_at}
    IN  {SubSeq(p, 1, IF n < limit THEN n ELSE limit) : p \in orders}

\* limit = 100 of the route and of the service
DefaultLimit == 100

\* C14: the list of unprocessed documents returned for a user right after an
\* upsert holds every newly inserted row, and every row it holds has
\* processing_status = pending and processed = false, whatever rows (failed or
\* processing ones included) the user already had.
C14_ListAfterUpsertIsPending ==
    \A u \in Users, listing \in SaveListings :
        LET documents == DocumentsToSave(u, SeqOfIds(SyncDocuments(listing)), listing)
            saved == saveDocuments(docs, nextId, clock, documents, 0)
            inserted == {d \in DOMAIN saved.docs \ DOMAIN docs : saved.docs[d].user_id = u}
        IN  \A list \in getUnprocessedDocuments(saved.docs, u, DefaultLimit) :
                /\ \A d \in inserted : \E k \in 1..Len(list) : list[k] = d
                /\ \A k \in 1..Len(list) :
                      /\ saved.docs[list[k]].processing_status = "pending"
                      /\ saved.docs[list[k]].processed = FALSE

\* C15: an upsert of a registered (user, file) leaves the row's processing_status,
\* processed, processing_error and result (and its key and created_at) as they
\* were, and rows of other files untouched: a stored result survives a re-sync.
C15_UpsertFrame ==
    \A u \in Users, listing \in SaveListings :
        LET documents == DocumentsToSave(u, SeqOfIds(SyncDocuments(listing)), listing)
            saved == saveDocuments(docs, nextId, clock, documents, 0).docs
        IN  \A d \in DOMAIN docs :
                /\ d \in DOMAIN saved
                /\ saved[d].processing_status = docs[d].processing_status
                /\ saved[d].processed = docs[d].processed
                /\ saved[d].processing_error = docs[d].processing_error
                /\ saved[d].result = docs[d].result
                /\ KeyOf(saved, d) = KeyOf(docs, d)
                /\ saved[d].created_at = docs[d].created_at
                /\ (\A k \in 1..Len(documents) :
                        KeyOf(docs, d) # <<u, documents[k].google_drive_file_id>>)
                      => saved[d] = docs[d]

\* a row completed by the worker whose staging fields a later sync has rewritten
\* and whose result is still stored
C15_Witness ==
    \E d \in DOMAIN docs :
        /\ Status(d) = "completed"
        /\ docs[d].processed = TRUE
        /\ docs[d].result = FlowResult
        /\ docs[d].local_file_path = NoPath

\* C16: at most one timer is scheduled, isRunning is true exactly when a timer
\* handle is held (and then the timer is scheduled), start() while running and
\* stop() while stopped change nothing.
C16_StartStopIdempotent ==
    /\ tasks <= 1
    /\ isRunning <=> cronJob # Null
    /\ cronJob # Null <=> tasks = 1
    /\ isRunning => \A scheduled \in BOOLEAN : start(Scheduler, scheduled) = Scheduler
    /\ ~isRunning => stop(Scheduler) = Scheduler

\* the scheduler running, with a run of the batch driver in flight
C16_Witness ==
    /\ isRunning
    /\ tasks = 1
    /\ \E r \in Runs : run[r].pc = "upload"

\* C17: when the batch driver raises in a run, processUnprocessedDocuments (the
\* timer callback) completes without raising, isRunning, the handle and the timer
\* are as before, and the timer can start the next run.
C17_DriverErrorKeepsSchedule ==
    [][\A r \in Runs :
          /\ RunQueryFails(r) =>
                /\ run'[r].pc = "done"
                /\ UNCHANGED <<isRunning, cronJob, tasks>>
          /\ (RunReturn(r) /\ run[r].threw) =>
                /\ run'[r] = IdleRun
                /\ UNCHANGED <<isRunning, cronJob, tasks>>
                /\ (tasks > 0 /\ nStart < MaxRunStarts) =>
                      \E q \in Runs : tasks' > 0 /\ run'[q].pc = "idle" /\ nStart' < MaxRunStarts]_vars

\* with the scheduler running, a run started after the run of the other slot,
\* whose batch driver has raised
C17_Witness ==
    /\ isRunning
    /\ tasks = 1
    /\ run[1].pc = "done" /\ run[1].threw
    /\ run[2].pc = "query"

\* C18: triggerProcessing starts one call of the batch driver, with the scheduler
\* running or stopped, and leaves isRunning, the handle and the timer unchanged;
\* a call of the batch driver queries once.
C18_TriggerRunsOnePass ==
    [][\A r \in Runs :
          /\ (nStart < MaxRunStarts /\ FreeSlot(r)) => ENABLED TriggerProcessing(r)
          /\ TriggerProcessing(r) =>
                /\ nStart' = nStart + 1
                /\ run'[r].pc = "query"
                /\ \A q \in Runs \ {r} : run'[q] = run[q]
                /\ UNCHANGED <<isRunning, cronJob, tasks, docs, files>>
          /\ (run'[r].pc = "query" /\ run[r].pc # "query") => run[r].pc = "idle"]_vars

\* with the scheduler stopped, a pass has gone through its page
C18_Witness ==
    /\ ~isRunning
    /\ tasks = 0
    /\ \E r \in Runs :
          /\ run[r].pc = "done"
          /\ Len(run[r].page) > 0
          /\ run[r].processed + run[r].failed = Len(run[r].page)

\* ------------------------------------------------------------------ fairness
\* a step of run r that the event loop takes once its awaited call has returned
RunStep(r) ==
    \/ RunQuery(r) \/ DocGet(r) \/ DocSetProcessing(r) \/ DocUpload(r) \/ DocFlow(r)
    \/ DocMark(r) \/ DocFail(r) \/ DocDelay(r) \/ RunReturn(r)

SpecFair == Spec /\ \A r \in Runs : WF_vars(RunStep(r))

\* C19: while the scheduler is stopped the timer starts no run; stop() leaves the
\* runs in flight as they are, and a run in flight with the scheduler stopped goes
\* on to the end of its page: it returns having counted every document of the
\* page as processed or failed.
C19_StopDoesNotCancel ==
    /\ [][/\ \A r \in Runs : TimerFire(r) => isRunning
          /\ Stop => run' = run /\ docs' = docs /\ files' = files]_vars
    /\ \A r \in Runs :
          (InFlight(r) /\ ~isRunning) ~>
              (/\ run[r].pc = "done"
               /\ ~run[r].threw => run[r].processed + run[r].failed = Len(run[r].page))

\* with the scheduler stopped, a run is at the second document of its page
C19_Witness ==
    /\ ~isRunning
    /\ tasks = 0
    /\ \E r \in Runs : run[r].pc = "upload" /\ run[r].idx = 2

\* ------------------------------------------------------------------ downloadMultipleFiles
MaxFiles == 7        \* files handed to downloadMultipleFiles
MaxConcurrent == 3   \* maxConcurrent, from 1

\* isSupportedDocumentType of ComposioGoogleDriveService
ComposioSupported(file) ==
    file.mimeType \in {"application/pdf",
                       "application/vnd.openxmlformats-officedocument.wordprocessingml.document",
                       "application/msword", "application/vnd.ms-word",
                       "text/plain", "text/markdown", "text/x-markdown"}

\* the files argument: file i has id i and a supported or an unsupported type
DownloadInputs ==
    UNION {{[i \in 1..n |-> [id |-> i, mimeType |-> m[i]]] :
               m \in [1..n -> {"application/pdf", "image/png"}]} : n \in 0..MaxFiles}

\* chunkArray: slices [i, i + chunkSize) for i = 0, chunkSize, ... (from is i + 1)
RECURSIVE ChunksFrom(_, _, _)
ChunksFrom(array, from, chunkSize) ==
    IF from > Len(array) THEN <<>>
    ELSE LET to == IF from + chunkSize - 1 < Len(array)
                   THEN from + chunkSize - 1 ELSE Len(array)
         IN  <<SubSeq(array, from, to)>> \o ChunksFrom(array, from + chunkSize, chunkSize)

\* a single chunk of everything
chunkArray_OneChunk(array, chunkSize) ==
    IF array = <<>> THEN <<>> ELSE <<array>>

chunkArray(array, chunkSize) == ChunksFrom(array, 1, chunkSize)

ChunkIds(chunk) == {chunk[m].id : m \in 1..Len(chunk)}

\* downloadMultipleFiles is called: the files are filtered and chunked
DownloadCall(fs, maxConcurrent) ==
    /\ download.pc = "idle"
    /\ LET supportedFiles == SelectSeq(fs, ComposioSupported)
           chunks == chunkArray(supportedFiles, maxConcurrent)
       IN  download' = [pc |-> IF chunks = <<>> THEN "return" ELSE "chunk",
                        supportedFiles |-> supportedFiles,
                        maxConcurrent |-> maxConcurrent,
                        chunks |-> chunks,
                        chunk |-> 1,
                        started |-> {},
                        inFlight |-> {},
                        outcome |-> [i \in 1..Len(fs) |-> "none"],
                        results |-> <<>>]
    /\ UNCHANGED <<docs, nextId, clock, files, isRunning, cronJob, tasks, run, nRequests, nStart>>

\* chunk.map(async ...) starts the download of every file of the chunk
DownloadChunk ==
    /\ download.pc = "chunk"
    /\ LET ids == ChunkIds(download.chunks[download.chunk])
       IN  download' = [download EXCEPT !.pc = "await",
                                        !.started = @ \cup ids,
                                        !.inFlight = ids]
    /\ UNCHANGED <<docs, nextId, clock, files, isRunning, cronJob, tasks, run, nRequests, nStart>>

\* downloadFile of file i returns or throws; the throw is caught into an entry
DownloadFinish(i, success) ==
    /\ download.pc = "await"
    /\ i \in download.inFlight
    /\ download' = [download EXCEPT !.inFlight = @ \ {i},
                                    !.outcome[i] = IF success THEN "ok" ELSE "failed"]
    /\ UNCHANGED <<docs, nextId, clock, files, isRunning, cronJob, tasks, run, nRequests, nStart>>

\* Promise.all of the chunk resolves and its entries are pushed
DownloadChunkDone ==
    /\ download.pc = "await"
    /\ download.inFlight = {}
    /\ LET chunk == download.chunks[download.chunk]
           chunkResults == [m \in 1..Len(chunk) |->
                               [fileId |-> chunk[m].id,
                                success |-> download.outcome[chunk[m].id] = "ok"]]
       IN  download' = [download EXCEPT
                          !.results = @ \o chunkResults,
                          !.pc = IF download.chunk < Len(download.chunks)
                                 THEN "delay" ELSE "return"]
    /\ UNCHANGED <<docs, nextId, clock, files, isRunning, cronJob, tasks, run, nRequests, nStart>>

\* the delay between two chunks ends
DownloadDelay ==
    /\ download.pc = "delay"
    /\ download' = [download EXCEPT !.pc = "chunk", !.chunk = @ + 1]
    /\ UNCHANGED <<docs, nextId, clock, files, isRunning, cronJob, tasks, run, nRequests, nStart>>

\* downloadMultipleFiles returns results
DownloadReturn ==
    /\ download.pc = "return"
    /\ download' = IdleDownload
    /\ UNCHANGED <<docs, nextId, clock, files, isRunning, cronJob, tasks, run, nRequests, nStart>>

NextDownload ==
    \/ \E fs \in DownloadInputs, c \in 1..MaxConcurrent : DownloadCall(fs, c)
    \/ DownloadChunk
    \/ \E i \in 1..MaxFiles, success \in BOOLEAN : DownloadFinish(i, success)
    \/ DownloadChunkDone
    \/ DownloadDelay
    \/ DownloadReturn

SpecDownload == Init /\ [][NextDownload]_vars

\* the chunk that holds file id i
ChunkOf(i) ==
    CHOOSE j \in 1..Len(download.chunks) : i \in ChunkIds(download.chunks[j])

\* C20: downloadMultipleFiles has at most maxConcurrent downloads in flight, all
\* of the current chunk; the chunks are the supported files in order, in sizes
\* c, ..., c and a last one of the remainder; no download of a later chunk has
\* started and every download of an earlier chunk has finished; it returns one
\* entry per supported file, in order, a failure entry exactly for the files
\* whose download failed.
C20_DownloadsInBatches ==
    LET c == download.maxConcurrent
        supported == download.supportedFiles
        n == Len(supported)
        chunks == download.chunks
    IN  download.pc # "idle" =>
        /\ Cardinality(download.inFlight) <= c
        /\ Len(chunks) = (n + c - 1) \div c
        /\ \A j \in 1..Len(chunks) :
              /\ Len(chunks[j]) = IF j < Len(chunks) THEN c ELSE n - c * (Len(chunks) - 1)
              /\ \A m \in 1..Len(chunks[j]) : chunks[j][m] = supported[c * (j - 1) + m]
        /\ \A i \in download.inFlight : ChunkOf(i) = download.chunk
        /\ \A i \in download.started :
              /\ ChunkOf(i) <= download.chunk
              /\ ChunkOf(i) < download.chunk => download.outcome[i] # "none"
        /\ download.pc = "return" =>
              /\ Len(download.results) = n
              /\ download.started = ChunkIds(supported)
              /\ \A m \in 1..n :
                    /\ download.results[m].fileId = supported[m].id
                    /\ download.results[m].success = (download.outcome[supported[m].id] = "ok")
                    /\ download.outcome[supported[m].id] # "none"

\* seven supported files at concurrency 3 went out as 3, 3, 1; the fourth failed
\* and the six others were downloaded
C20_Witness ==
    /\ download.pc = "return"
    /\ download.maxConcurrent = 3
    /\ Len(download.chunks) = 3
    /\ Len(download.chunks[3]) = 1
    /\ Len(download.results) = 7
    /\ \A m \in 1..7 : download.results[m].success = (m # 4)

\* ------------------------------------------------------------------ sync result
\* the files of a sync whose download was attempted and threw
FailedDownloads(listing) ==
    {f \in SyncDocuments(listing) :
        isSupportedDocumentType(listing[f].mimeType) /\ ~listing[f].downloads}

\* what syncUserDocuments returns once saveDocuments has committed
syncUserDocuments(userId, listing) ==
    LET documents == DocumentsToSave(userId, SeqOfIds(SyncDocuments(listing)), listing)
    IN  [total |-> Len(documents), new |-> Len(documents), updated |-> 0, errors |-> <<>>]

\* C21: when k of the files discovered by a sync fail to download, the sync still
\* completes, registers the other files, and returns an error list with one entry
\* per failed file (k entries).
C21_SyncReportsFailedDownloads ==
    [][\A u \in Users, listing \in SaveListings :
          SaveSync(u, listing) =>
             /\ \A f \in Downloaded(listing) : RowOf(docs', u, f) # 0
             /\ Len(syncUserDocuments(u, listing).errors)
                   = Cardinality(FailedDownloads(listing))]_vars

\* ------------------------------------------------------------------ saveFileToLocal
\* Saves of downloaded buffers under display names that change between saves.
StageNames == {<<"a">>, <<"a", "!", "a">>, <<"a", "!", "!", "a">>, <<"!", "a", "!">>}

\* the staged files of (userId, fileId): userDir/fileId_*
StagedOf(fs, userId, fileId) == {p \in fs : p[1] = userId /\ p[2] = fileId}

\* saveFileToLocal: writeFileSync(localPath, fileBuffer) creates the file or
\* replaces its content; [localPath, files]
saveFileToLocal(fs, fileName, userId, fileId) ==
    LET localPath == LocalPath(userId, fileId, fileName)
    IN  [localPath |-> localPath, files |-> fs \cup {localPath}]

SaveFileToLocal(userId, fileId, fileName) ==
    /\ files' = saveFileToLocal(files, fileName, userId, fileId).files
    /\ UNCHANGED <<download, docs, nextId, clock, isRunning, cronJob, tasks, run, nRequests,
                   nStart>>

NextStage ==
    \E u \in Users, f \in BatchFileIds, n \in StageNames : SaveFileToLocal(u, f, n)

SpecStage == Init /\ [][NextStage]_vars

\* C22: after any sequence of save calls for a (userId, remote file id), display
\* names differing between saves included, exactly one staged file exists on disk
\* for that pair, at the path returned by the latest save.
C22_OneStagedFilePerRemoteFile ==
    [][\A u \in Users, f \in BatchFileIds, n \in StageNames :
          SaveFileToLocal(u, f, n) =>
             StagedOf(files', u, f) = {saveFileToLocal(files, n, u, f).localPath}]_vars

\* ------------------------------------------------------------------ cleanupOldFiles
\* cleanupOldFiles is synchronous: the walk of the staging root is one step. What
\* statSync reports (mtime), Date.now() and the unlinkSync that throws are inputs.
DayMs == 24 * 60 * 60 * 1000

Nows == {10 * DayMs}
MaxAges == {1, 7}     \* maxAgeDays; 7 is the default

\* modification times just before, at and after the two cutoffs
MTimes(now) == {now - 7 * DayMs - 1, now - 7 * DayMs, now - DayMs}

\* the loop of cleanupDir over the files of one user directory; st is
\* [files, unlinks, threw], failAt the call of unlinkSync that throws (0: none)
RECURSIVE CleanupItems(_, _, _, _, _)
CleanupItems(st, items, mtime, cutoffTime, failAt) ==
    IF items = <<>> \/ st.threw THEN st
    ELSE LET itemPath == Head(items) IN
         IF mtime[itemPath] < cutoffTime
         THEN IF st.unlinks + 1 = failAt
              THEN [st EXCEPT !.threw = TRUE]
              ELSE CleanupItems([st EXCEPT !.files = deleteFile(@, itemPath),
                                           !.unlinks = @ + 1],
                                Tail(items), mtime, cutoffTime, failAt)
         ELSE CleanupItems(st, Tail(items), mtime, cutoffTime, failAt)

\* the loop of cleanupDir over the user directories of the staging root
RECURSIVE CleanupDirs(_, _, _, _, _)
CleanupDirs(st, dirs, mtime, cutoffTime, failAt) ==
    IF dirs = <<>> \/ st.threw THEN st
    ELSE CleanupDirs(CleanupItems(st, SeqOfIds({p \in st.files : p[1] = Head(dirs)}),
                                  mtime, cutoffTime, failAt),
                     Tail(dirs), mtime, cutoffTime, failAt)

\* cleanupOldFiles(maxAgeDays): the files left when it returns; a throw inside
\* the walk is caught and logged
cleanupOldFiles(fs, mtime, now, maxAgeDays, failAt) ==
    LET cutoffTime == now - maxAgeDays * DayMs
    IN  CleanupDirs([files |-> fs, unlinks |-> 0, threw |-> FALSE],
                    SeqOfIds({p[1] : p \in fs}), mtime, cutoffTime, failAt).files

CleanupOldFiles(now, maxAgeDays, mtime, failAt) ==
    /\ files # {}
    /\ files' = cleanupOldFiles(files, mtime, now, maxAgeDays, failAt)
    /\ UNCHANGED <<download, docs, nextId, clock, isRunning, cronJob, tasks, run, nRequests,
                   nStart>>

NextCleanup ==
    \/ \E u \in Users, f \in BatchFileIds, n \in StageNames : SaveFileToLocal(u, f, n)
    \/ \E now \in Nows, maxAgeDays \in MaxAges :
         \E mtime \in [files -> MTimes(now)], failAt \in 0..Cardinality(files) :
            CleanupOldFiles(now, maxAgeDays, mtime, failAt)

SpecCleanup == Init /\ [][NextCleanup]_vars

\* C23: cleanupOldFiles(maxAgeDays) removes no file whose modification time is at
\* or after the cutoff and, when it returns, no file older than the cutoff remains
\* anywhere under the staging root, in any per-user directory.
C23_CleanupRemovesExactlyOldFiles ==
    [][\A now \in Nows, maxAgeDays \in MaxAges :
          \A mtime \in [files -> MTimes(now)], failAt \in 0..Cardinality(files) :
             CleanupOldFiles(now, maxAgeDays, mtime, failAt) =>
                LET cutoffTime == now - maxAgeDays * DayMs
                IN  /\ \A p \in files : mtime[p] >= cutoffTime => p \in files'
                    /\ \A p \in files' : ~(mtime[p] < cutoffTime)]_vars

\* ------------------------------------------------------------------ a full page
\* The scheduler running over a registry whose older rows fill the page of the
\* query: rows of files that were never staged (text/x-markdown passes the filter
\* of the sync and not that of the download), and after them one pending
\* document with its staged file.
FileIdOf(i) == <<"f", i>>

\* row i: the document of a sync whose file was not downloaded
UnstagedDocument(i) ==
    [user_id |-> IF i % 2 = 0 THEN "u1" ELSE "u2",
     google_drive_file_id |-> FileIdOf(i),
     file_name |-> CHOOSE n \in Names : TRUE,
     mime_type |-> "text/x-markdown",
     local_file_path |-> NoPath]

\* older rows 1..n and the staged document n + 1, created one after the other
FullRegistry(n) ==
    [i \in 1..(n + 1) |->
        UpsertRow(<<>>, i, i, IF i <= n THEN UnstagedDocument(i)
                              ELSE StagedDocument(<<"u1", FileIdOf(i)>>))[i]]

InitFullPage ==
    /\ \E n \in {PageLimit - 1, PageLimit} :
         /\ docs = FullRegistry(n)
         /\ nextId = n + 2
         /\ clock = n + 2
         /\ files = {LocalPath("u1", FileIdOf(n + 1), CHOOSE nm \in Names : TRUE)}
    /\ isRunning = TRUE
    /\ cronJob = "task"
    /\ tasks = 1
    /\ run = [r \in Runs |-> IdleRun]
    /\ nRequests = 0
    /\ nStart = 0
    /\ download = IdleDownload

\* the scheduled task fires after the run before it has returned; the firings
\* are not counted
TimerFireAgain(r) ==
    /\ tasks > 0
    /\ FreeSlot(r)
    /\ \A q \in Runs : ~InFlight(q)
    /\ run' = [run EXCEPT ![r] = [IdleRun EXCEPT !.pc = "query"]]
    /\ UNCHANGED <<download, docs, nextId, clock, files, isRunning, cronJob, tasks, nRequests,
                   nStart>>

NextFullPage ==
    \/ \E r \in Runs : TimerFireAgain(r)
    \/ \E r \in Runs : RunQuery(r)
    \/ \E r \in Runs : RunReturn(r)
    \/ \E r \in Runs : DocGet(r)
    \/ \E r \in Runs : DocSetProcessing(r)
    \/ \E r \in Runs : DocUpload(r)
    \/ \E r \in Runs : DocFlow(r)
    \/ \E r \in Runs : DocMark(r)
    \/ \E r \in Runs : DocFail(r)
    \/ \E r \in Runs : DocDelay(r)

\* the timer keeps firing, every awaited call returns
SpecFullPage ==
    /\ InitFullPage
    /\ [][NextFullPage]_vars
    /\ WF_vars(\E r \in Runs : TimerFireAgain(r))
    /\ \A r \in Runs : WF_vars(RunStep(r))

\* the ids of the documents that are staged in InitFullPage
StagedIds == {PageLimit, PageLimit + 1}

\* C24: while the scheduler keeps running and the external processor always
\* answers, every pending document with a staged file is eventually selected by a
\* batch-driver run and reaches completed or failed, however many documents were
\* created before it.
C24_PendingEventuallySettled ==
    \A d \in StagedIds :
        (/\ d \in DOMAIN docs
         /\ Status(d) = "pending"
         /\ fileExists(files, docs[d].local_file_path))
           ~> (d \in DOMAIN docs /\ Status(d) \in {"completed", "failed"})

\* ------------------------------------------------------------------ user isolation
\* a force-status or delete request of the authenticated user u
RequestOf(u) ==
    \/ \E d \in DocIds, st \in ForceStatuses, e \in ForceErrors : ForceStatus(u, d, st, e)
    \/ \E d \in DocIds : DeleteRoute(u, d)

\* C25: a force-status or delete request issued by an authenticated user u changes
\* or removes only rows whose user_id is u; a request naming the id of another
\* user's document leaves that document unchanged.
C25_RequestsTouchOnlyOwnRows ==
    [][\A u \in Users :
          RequestOf(u) =>
             \A d \in DOMAIN docs :
                docs[d].user_id # u => (d \in DOMAIN docs' /\ docs'[d] = docs[d])]_vars

\* ------------------------------------------------------------------ order within a run
\* the positions at which a processDocument call of the run is in progress
InDocument == {"get", "setproc", "upload", "flow", "mark", "fail",
               "x_test", "x_get", "x_setproc", "x_upload", "x_mark", "x_fail"}

\* the positions from which the loop of the batch driver starts a processDocument
\* call: its query has returned, or the call before has returned (or thrown)
BetweenDocuments == {"query", "delay", "fail", "x_query", "x_delay", "x_fail"}

\* C26: within one batch-driver run the documents are processed in the ascending
\* created_at order of the fetched page, and processDocument for document i + 1
\* starts only after processDocument for document i has returned: at most one
\* document of the run is in processing at any time.
C26_OneAtATimeInPageOrder ==
    /\ [](\A r \in Runs :
             LET page == run[r].page
                 idx == run[r].idx
             IN  /\ \A i, j \in 1..Len(page) :
                       i < j => docs[page[i]].created_at <= docs[page[j]].created_at
                 /\ \A k \in 1..Len(page) :
                       /\ k < idx => Status(page[k]) \in {"completed", "failed"}
                       /\ k > idx => Status(page[k]) = "pending"
                       /\ Status(page[k]) = "processing" =>
                             k = idx /\ run[r].pc \in InDocument)
    /\ [][\A r \in Runs :
             run'[r].idx # run[r].idx =>
                /\ run'[r].idx = run[r].idx + 1
                /\ run[r].pc \in BetweenDocuments
                /\ run'[r].pc \in {"get", "x_test"}]_vars

\* a run at the third document of its page, created after the two before it,
\* which it has completed and failed
C26_Witness ==
    \E r \in Runs :
        /\ run[r].pc = "flow"
        /\ run[r].idx = 3
        /\ Status(run[r].page[1]) = "completed"
        /\ Status(run[r].page[2]) = "failed"
        /\ Status(run[r].page[3]) = "processing"
        /\ docs[run[r].page[1]].created_at < docs[run[r].page[2]].created_at
        /\ docs[run[r].page[2]].created_at < docs[run[r].page[3]].created_at

\* ------------------------------------------------------------------ rows a sync inserts
\* C27: every row that a sync inserts with status pending has, when it is
\* committed, a non-null local_file_path whose staged file exists; a file whose
\* download failed or that the MIME filter of the download skipped is not
\* registered as pending.
C27_InsertedPendingRowsAreStaged ==
    [][\A u \in Users, listing \in Listings :
          SyncRoute(u, listing) =>
             /\ \A d \in DOMAIN docs' \ DOMAIN docs :
                   docs'[d].processing_status = "pending" =>
                      /\ docs'[d].local_file_path # NoPath
                      /\ fileExists(files', docs'[d].local_file_path)
             /\ \A f \in SyncDocuments(listing) \ Downloaded(listing) :
                   RowOf(docs, u, f) = 0 => RowOf(docs', u, f) = 0]_vars

\* ------------------------------------------------------------------ staging against processing
\* a processDocument call has moved document d to processing and has not yet
\* recorded it as completed or failed
BeingProcessed(d) ==
    \E r \in Runs :
        /\ run[r].pc \in {"upload", "flow", "mark", "fail"}
        /\ CurrentDoc(r) = d
        /\ d \in DOMAIN docs
        /\ Status(d) = "processing"

\* the paths downloadFile writes in a sync of the listing
SyncWrites(userId, listing) ==
    {LocalPath(userId, f, listing[f].name) : f \in Downloaded(listing)}

\* C28: a sync never writes the staged file of a document while a worker
\* invocation for that document is between its transition to processing and its
\* terminal transition, under any interleaving of a sync with a batch-driver run.
C28_NoStagingWhileProcessing ==
    [][\A u \in Users, listing \in Listings :
          (SyncRoute(u, listing) \/ SyncRouteSaveFails(u, listing)) =>
             \A d \in DOMAIN docs :
                BeingProcessed(d) => docs[d].local_file_path \notin SyncWrites(u, listing)]_vars

\* ------------------------------------------------------------------ the two workers
\* C29: the Langflow worker and the LangExtract worker are interchangeable:
\* started from the same registry state, a batch-driver run of either selects the
\* same documents in the same order (and then drives each through the same
\* status transitions). Stated of the selection: in every registry state the two
\* queries return the same pages.
C29_WorkersSelectTheSameDocuments ==
    QueryPages(docs) = ExtractQueryPages(docs)

\* ------------------------------------------------------------------ processDocument returns
\* the positions inside a processDocument call of the Langflow worker
InProcessDocument == {"get", "setproc", "upload", "flow", "mark", "fail"}

\* C30: every processDocument invocation terminates; when it returns normally the
\* row is completed (success) or failed with the error recorded on it (failure
\* returned as a result value and counted), never pending or processing; and an
\* error it raises is caught by the loop of the batch driver, which goes on.
C30_ProcessDocumentSettles ==
    /\ [][\A r \in Runs :
             /\ (DocMark(r) /\ run'[r].pc = "delay") =>
                   /\ docs'[CurrentDoc(r)].processing_status = "completed"
                   /\ run'[r].processed = run[r].processed + 1
             /\ (DocFail(r) /\ run'[r].pc = "delay") =>
                   /\ docs'[CurrentDoc(r)].processing_status = "failed"
                   /\ docs'[CurrentDoc(r)].processing_error = run[r].err
                   /\ run'[r].failed = run[r].failed + 1
             /\ (DocMark(r) \/ DocFail(r)) =>
                   /\ ~run'[r].threw
                   /\ run'[r].pc \in {"delay", "fail", "get", "done"}]_vars
    /\ \A r \in Runs, k \in DocIds :
          (run[r].pc \in InProcessDocument /\ run[r].idx = k)
             ~> ~(run[r].pc \in InProcessDocument /\ run[r].idx = k)

\* the second invocation of a run has returned failure after the flow failed, the
\* first had completed its document
C30_Witness ==
    \E r \in Runs :
        /\ run[r].pc = "delay"
        /\ run[r].idx = 2
        /\ run[r].processed = 1
        /\ run[r].failed = 1
        /\ run[r].page[2] \in DOMAIN docs
        /\ Status(run[r].page[2]) = "failed"
        /\ docs[run[r].page[2]].processing_error = ErrFlow

====
